---------------------------- MODULE Spec2Model ----------------------------
(***************************************************************************)
(* Model of scripts/check-versions.js (the second script held in           *)
(* src/scripts/adapt-content.js, lines 449-1000): the version compliance   *)
(* and notification engine.                                                *)
(*                                                                         *)
(* JavaScript values are modelled as follows.                              *)
(*   - a number-or-null value is a tagged record: Num(n), Null, NaN;       *)
(*   - an object is a TLA+ record whose DOMAIN is the set of the fields    *)
(*     that are present, so an absent field reads as undefined;            *)
(*   - a command-line token is a sequence of one-character strings;        *)
(*   - a trainer name is the sequence of its space-separated words         *)
(*     (<<>> is the empty string);                                         *)
(*   - an instant is a whole number of hours of UTC time, and the local    *)
(*     time zone is an offset in hours.                                    *)
(***************************************************************************)
EXTENDS Integers, Sequences, FiniteSets, TLC

VARIABLES
    VERSION_CONFIG,   \* the VERSION CONFIG block
    args,             \* process.argv.slice(2)
    clock,            \* [now, tz]: what new Date() reads, and the local offset
    data,             \* data.trainers, the parsed input records
    pc,               \* position of main()
    analyses,         \* results of analyzeTrainer, in the order produced
    stats,            \* result of computeStats, or NoStats
    terminal,         \* what the terminal output has shown so far
    report,           \* the markdown report written to OUTPUT_PATH, or NoReport
    exitCode          \* process exit status once the run has ended, or Running

vars == <<VERSION_CONFIG, args, clock, data, pc, analyses, stats, terminal,
          report, exitCode>>

---------------------------------------------------------------------------
(* Bounds of the model.                                                    *)

MaxHistory == 3
MaxTrainers == 2
MaxRows == 3
NowDay == 100

\* Number of days since last_accessed before a trainer is flagged as stale.
stale_threshold_days == 45

\* 1000 * 60 * 60 * 24 milliseconds, in the model's unit (hours).
HoursPerDay == 24

---------------------------------------------------------------------------
(* JavaScript values.                                                      *)

Null == [t |-> "null"]
NaN == [t |-> "NaN"]
Num(n) == [t |-> "number", v |-> n]

IsNum(x) == x.t = "number"

\* ToNumber: null converts to 0.
ToNumber(x) == IF x = Null THEN Num(0) ELSE x

\* a > b and a >= b on numbers or null: false when either side is NaN.
JSGreater(a, b) ==
    LET x == ToNumber(a)
        y == ToNumber(b)
    IN  IsNum(x) /\ IsNum(y) /\ x.v > y.v

JSGreaterEq(a, b) ==
    LET x == ToNumber(a)
        y == ToNumber(b)
    IN  IsNum(x) /\ IsNum(y) /\ x.v >= y.v

\* a === n for a number literal n: no conversion, null is not a number.
StrictEqNum(a, n) == a = Num(n)

\* a - b
JSMinus(a, b) ==
    LET x == ToNumber(a)
        y == ToNumber(b)
    IN  IF IsNum(x) /\ IsNum(y) THEN Num(x.v - y.v) ELSE NaN

\* Math.max(0, x)
MathMax0(x) ==
    LET y == ToNumber(x)
    IN  IF ~IsNum(y) THEN NaN ELSE IF y.v > 0 THEN y ELSE Num(0)

\* Math.floor(x / d) for a positive whole d
MathFloorDiv(x, d) == IF IsNum(x) THEN Num(x.v \div d) ELSE NaN

---------------------------------------------------------------------------
(* Strings of the command line.                                            *)

DigitChars == <<"0", "1", "2", "3", "4", "5", "6", "7", "8", "9">>

IsDigit(c) == \E i \in 1..10 : DigitChars[i] = c

DigitValue(c) == (CHOOSE i \in 1..10 : DigitChars[i] = c) - 1

\* String(n) for a whole number n >= 0
RECURSIVE String(_)
String(n) ==
    IF n < 10 THEN <<DigitChars[n + 1]>>
    ELSE Append(String(n \div 10), DigitChars[(n % 10) + 1])

\* The longest prefix of s made of digits.
RECURSIVE DigitPrefix(_)
DigitPrefix(s) ==
    IF s = <<>> \/ ~IsDigit(Head(s)) THEN <<>>
    ELSE <<Head(s)>> \o DigitPrefix(Tail(s))

RECURSIVE DecimalValue(_)
DecimalValue(ds) ==
    IF ds = <<>> THEN 0
    ELSE 10 * DecimalValue(SubSeq(ds, 1, Len(ds) - 1)) + DigitValue(ds[Len(ds)])

\* parseInt(s): an optional sign, then the longest run of digits; NaN if none.
parseInt(s) ==
    LET neg  == s # <<>> /\ Head(s) = "-"
        rest == IF s # <<>> /\ Head(s) \in {"-", "+"} THEN Tail(s) ELSE s
        ds   == DigitPrefix(rest)
    IN  IF ds = <<>> THEN NaN
        ELSE Num(IF neg THEN 0 - DecimalValue(ds) ELSE DecimalValue(ds))

FlagStaleDays == <<"-", "-", "s", "t", "a", "l", "e", "-", "d", "a", "y", "s">>
FlagQuiet == <<"-", "-", "q", "u", "i", "e", "t">>

\* args.indexOf(flag), 1-based; 0 stands for -1
ArgsIndexOf(flag) ==
    IF \E i \in 1..Len(args) : args[i] = flag
    THEN CHOOSE i \in 1..Len(args) :
            args[i] = flag /\ \A j \in 1..(i - 1) : args[j] # flag
    ELSE 0

getArg(flag, defaultValue) ==
    LET index == ArgsIndexOf(flag)
    IN  IF index # 0 /\ index + 1 <= Len(args) /\ args[index + 1] # <<>>
        THEN args[index + 1]
        ELSE defaultValue

STALE_DAYS == parseInt(getArg(FlagStaleDays, String(stale_threshold_days)))

QUIET == \E i \in 1..Len(args) : args[i] = FlagQuiet

---------------------------------------------------------------------------
(* Version utilities.                                                      *)

\* array.indexOf(x), 1-based; 0 stands for -1
IndexOf(seq, x) ==
    IF \E i \in 1..Len(seq) : seq[i] = x
    THEN CHOOSE i \in 1..Len(seq) : seq[i] = x /\ \A j \in 1..(i - 1) : seq[j] # x
    ELSE 0

\* The 0-based index of version in version_history, or null.
getVersionIndex(version) ==
    LET idx == IndexOf(VERSION_CONFIG.version_history, version)
    IN  IF idx = 0 THEN Null ELSE Num(idx - 1)

\* The difference of the indices without Math.max(0, ...).
versionsBehind_Signed(trainerVersion, latestVersion) ==
    LET trainerIdx == getVersionIndex(trainerVersion)
        latestIdx  == getVersionIndex(latestVersion)
    IN  IF trainerIdx = Null THEN Null
        ELSE JSMinus(latestIdx, trainerIdx)

versionsBehind(trainerVersion, latestVersion) ==
    LET trainerIdx == getVersionIndex(trainerVersion)
        latestIdx  == getVersionIndex(latestVersion)
    IN  IF trainerIdx = Null THEN Null
        ELSE MathMax0(JSMinus(latestIdx, trainerIdx))

missedVersions(trainerVersion) ==
    LET trainerIdx == getVersionIndex(trainerVersion)
        h == VERSION_CONFIG.version_history
    IN  IF trainerIdx = Null THEN <<>>
        ELSE SubSeq(h, trainerIdx.v + 2, Len(h))

statusLabel(behind) ==
    IF behind = Null THEN "UNKNOWN"
    ELSE IF StrictEqNum(behind, 0) THEN "CURRENT"
    ELSE IF StrictEqNum(behind, 1) THEN "1 VERSION BEHIND"
    ELSE "N VERSIONS BEHIND"

\* A variant that follows the comment above the function body ("2+ versions
\* behind OR stale AND any version behind"): staleness escalates to CRITICAL.
urgencyLevel_StaleIsCritical(behind, daysSinceAccess) ==
    IF JSGreaterEq(behind, Num(2))
       \/ (JSGreaterEq(behind, Num(1)) /\ JSGreater(daysSinceAccess, STALE_DAYS))
    THEN "CRITICAL"
    ELSE IF StrictEqNum(behind, 1) THEN "MEDIUM"
    ELSE IF JSGreater(daysSinceAccess, STALE_DAYS) THEN "LOW"
    ELSE "OK"

\* A chain that tests staleness before the single-version gap.
urgencyLevel_StaleBeforeBehind(behind, daysSinceAccess) ==
    IF JSGreaterEq(behind, Num(2)) THEN "CRITICAL"
    ELSE IF JSGreater(daysSinceAccess, STALE_DAYS) THEN "LOW"
    ELSE IF StrictEqNum(behind, 1) THEN "MEDIUM"
    ELSE "OK"

urgencyLevel(behind, daysSinceAccess) ==
    IF JSGreaterEq(behind, Num(2)) THEN "CRITICAL"
    ELSE IF StrictEqNum(behind, 1) /\ JSGreater(daysSinceAccess, STALE_DAYS) THEN "HIGH"
    ELSE IF StrictEqNum(behind, 1) THEN "MEDIUM"
    ELSE IF JSGreater(daysSinceAccess, STALE_DAYS) THEN "LOW"
    ELSE "OK"

---------------------------------------------------------------------------
(* Date utilities.                                                         *)

\* new Date(dateString): a date-only ISO string is read as UTC midnight, a
\* date-time string without a zone as local time, anything else is an
\* Invalid Date (NaN).
NewDate(dateString) ==
    CASE dateString.fmt = "date"     -> Num(dateString.day * HoursPerDay)
      [] dateString.fmt = "datetime" ->
            Num(dateString.day * HoursPerDay + dateString.hour - clock.tz)
      [] OTHER -> NaN

\* d.setHours(0, 0, 0, 0): back to the local midnight of d's local day. The
\* offset of the zone is fixed for the run (no daylight-saving change).
SetHoursZero(d) ==
    IF ~IsNum(d) THEN NaN
    ELSE LET local == d.v + clock.tz
         IN  Num(local - (local % HoursPerDay) - clock.tz)

daysSince(dateString) ==
    LET past == SetHoursZero(NewDate(dateString))
        now  == SetHoursZero(Num(clock.now))
    IN  MathFloorDiv(JSMinus(now, past), HoursPerDay)

---------------------------------------------------------------------------
(* Objects.                                                                *)

\* obj[f] is truthy: the field is present and is not the empty string.
\* (A name is a sequence of words, <<>> being ""; the other string fields
\* are TLA+ strings; last_accessed is a date string, modelled by its format.)
EmptyString(f) ==
    CASE f = "name"          -> <<>>
      [] f = "last_accessed" -> [fmt |-> "empty"]
      [] OTHER               -> ""

Truthy(obj, f) == f \in DOMAIN obj /\ obj[f] # EmptyString(f)

---------------------------------------------------------------------------
(* Email generator.                                                        *)

SeeReleaseNotes == "See release notes."

\* VERSION_CONFIG.release_notes[v] || "See release notes."
ReleaseNoteOrDefault(v) ==
    IF Truthy(VERSION_CONFIG.release_notes, v)
    THEN VERSION_CONFIG.release_notes[v]
    ELSE SeeReleaseNotes

\* subjects[urgency] || fallback: the subject template chosen and what it
\* interpolates.
EmailSubject(behind, urgency) ==
    CASE urgency = "CRITICAL" ->
            [template |-> "CRITICAL", behind |-> behind,
             plural |-> JSGreater(behind, Num(1))]
      [] urgency = "HIGH" ->
            [template |-> "HIGH", latest |-> VERSION_CONFIG.latest_version]
      [] urgency = "MEDIUM" ->
            [template |-> "MEDIUM", latest |-> VERSION_CONFIG.latest_version]
      [] OTHER ->
            [template |-> "FALLBACK", latest |-> VERSION_CONFIG.latest_version]

EmailUrgencyLine(trainer, behind, missed, days, urgency) ==
    CASE urgency = "CRITICAL" ->
            [tone |-> "CRITICAL", version |-> trainer.current_version,
             behind |-> behind, plural |-> JSGreater(behind, Num(1))]
      [] urgency = "HIGH" ->
            [tone |-> "HIGH", version |-> trainer.current_version, days |-> days]
      [] OTHER ->
            [tone |-> "FYI", version |-> trainer.current_version,
             sections |-> IF Len(missed) = 1 THEN "one section" ELSE "a few sections"]

\* A session line for every record that has the field, also when it is 0.
EmailSessionLine_WheneverPresent(trainer) ==
    IF "sessions_delivered" \in DOMAIN trainer
    THEN <<[sessions |-> trainer.sessions_delivered,
            plural |-> trainer.sessions_delivered > 1]>>
    ELSE <<>>

\* trainer.sessions_delivered > 0 ? `Your ${n} session(s) ...` : ""
EmailSessionLine(trainer) ==
    IF "sessions_delivered" \in DOMAIN trainer /\ trainer.sessions_delivered > 0
    THEN <<[sessions |-> trainer.sessions_delivered,
            plural |-> trainer.sessions_delivered > 1]>>
    ELSE <<>>

generateEmail(trainer, analysis) ==
    [subject |-> EmailSubject(analysis.behind, analysis.urgency),
     body |->
        [greeting    |-> Head(trainer.name),
         urgencyLine |-> EmailUrgencyLine(trainer, analysis.behind, analysis.missed,
                                          analysis.daysSince, analysis.urgency),
         changeLines |-> [i \in 1..Len(analysis.missed) |->
                            [v |-> analysis.missed[i],
                             note |-> ReleaseNoteOrDefault(analysis.missed[i])]],
         sessionLine |-> EmailSessionLine(trainer)]]

---------------------------------------------------------------------------
(* Analysis engine.                                                        *)

\* A variant with >= for >.
IsStale_AtThreshold(days) == JSGreaterEq(days, STALE_DAYS)

\* A variant that reads the configured threshold, not the one in force.
IsStale_ConfiguredThreshold(days) == JSGreater(days, Num(stale_threshold_days))

\* const isStale = days > STALE_DAYS
IsStale(days) == JSGreater(days, STALE_DAYS)

\* A variant that drops the test behind > 0.
NeedsUpdate_AnyKnownVersion(behind) == behind # Null

\* const needsUpdate = behind !== null && behind > 0
NeedsUpdate(behind) == behind # Null /\ JSGreater(behind, Num(0))

analyzeTrainer(trainer) ==
    LET behind      == versionsBehind(trainer.current_version, VERSION_CONFIG.latest_version)
        missed      == missedVersions(trainer.current_version)
        days        == daysSince(trainer.last_accessed)
        isStale     == IsStale(days)
        urgency     == urgencyLevel(behind, days)
        needsUpdate == NeedsUpdate(behind)
        email       == IF needsUpdate
                       THEN generateEmail(trainer,
                                [behind |-> behind, missed |-> missed,
                                 daysSince |-> days, urgency |-> urgency])
                       ELSE Null
    IN  [trainer     |-> trainer,
         behind      |-> behind,
         missed      |-> missed,
         daysSince   |-> days,
         isStale     |-> isStale,
         urgency     |-> urgency,
         needsUpdate |-> needsUpdate,
         status      |-> statusLabel(behind),
         email       |-> email]

---------------------------------------------------------------------------
(* Aggregate stats.                                                        *)

\* The key without the default: an absent region as the key "undefined",
\* an empty one as the key "".
RegionKey_NoDefault(a) ==
    IF "region" \in DOMAIN a.trainer THEN a.trainer.region ELSE "undefined"

\* const r = a.trainer.region || "Unknown"
RegionKey(a) == IF Truthy(a.trainer, "region") THEN a.trainer.region ELSE "Unknown"

\* byRegion is the object literal {}: a key it does not own is looked up on
\* Object.prototype, where these names are found (and are truthy).
ObjectPrototypeKeys ==
    {"constructor", "toString", "valueOf", "hasOwnProperty", "isPrototypeOf",
     "propertyIsEnumerable", "toLocaleString", "__proto__"}

\* One iteration of the grouping loop. byRegion is kept as the sequence of
\* its own entries in insertion order, the order Object.entries yields.
\* When r is not an own key but is inherited, !byRegion[r] is false, no entry
\* is created, and total++ / current++ land on the inherited object: byRegion
\* gets no own property.
AddToRegion(byRegion, a) ==
    LET r   == RegionKey(a)
        cur == IF StrictEqNum(a.behind, 0) THEN 1 ELSE 0
    IN  IF \E i \in 1..Len(byRegion) : byRegion[i].region = r
        THEN [i \in 1..Len(byRegion) |->
                IF byRegion[i].region = r
                THEN [region  |-> r,
                      total   |-> byRegion[i].total + 1,
                      current |-> byRegion[i].current + cur]
                ELSE byRegion[i]]
        ELSE IF r \in ObjectPrototypeKeys
        THEN byRegion
        ELSE Append(byRegion, [region |-> r, total |-> 1, current |-> cur])

RECURSIVE GroupByRegion(_, _)
GroupByRegion(byRegion, seq) ==
    IF seq = <<>> THEN byRegion
    ELSE GroupByRegion(AddToRegion(byRegion, Head(seq)), Tail(seq))

\* Each count is analyses.filter(pred).length.
\* A variant whose third count takes every record behind, by one or more.
computeStats_BehindAtAllAsTwoPlus(as) ==
    [total         |-> Len(as),
     current       |-> Cardinality({i \in DOMAIN as : StrictEqNum(as[i].behind, 0)}),
     oneBehind     |-> Cardinality({i \in DOMAIN as : StrictEqNum(as[i].behind, 1)}),
     twoPlusBehind |-> Cardinality({i \in DOMAIN as :
                            as[i].behind # Null /\ JSGreaterEq(as[i].behind, Num(1))}),
     stale         |-> Cardinality({i \in DOMAIN as : as[i].isStale}),
     needsUpdate   |-> Cardinality({i \in DOMAIN as : as[i].needsUpdate}),
     byRegion      |-> GroupByRegion(<<>>, as)]

computeStats(as) ==
    [total         |-> Len(as),
     current       |-> Cardinality({i \in DOMAIN as : StrictEqNum(as[i].behind, 0)}),
     oneBehind     |-> Cardinality({i \in DOMAIN as : StrictEqNum(as[i].behind, 1)}),
     twoPlusBehind |-> Cardinality({i \in DOMAIN as :
                            as[i].behind # Null /\ JSGreaterEq(as[i].behind, Num(2))}),
     stale         |-> Cardinality({i \in DOMAIN as : as[i].isStale}),
     needsUpdate   |-> Cardinality({i \in DOMAIN as : as[i].needsUpdate}),
     byRegion      |-> GroupByRegion(<<>>, as)]

---------------------------------------------------------------------------
(* Report generation.                                                      *)

urgencyOrder == <<"CRITICAL", "HIGH", "MEDIUM", "LOW", "OK", "UNKNOWN">>

\* urgencyOrder.indexOf(a.urgency), 0-based, -1 when absent
UrgencyRank(a) == IndexOf(urgencyOrder, a.urgency) - 1

\* An insertion that places a in front of the elements it compares equal to.
RECURSIVE InsertSorted_BeforeEquals(_, _)
InsertSorted_BeforeEquals(sorted, a) ==
    IF sorted = <<>> THEN <<a>>
    ELSE IF UrgencyRank(Head(sorted)) - UrgencyRank(a) >= 0
         THEN <<a>> \o sorted
         ELSE <<Head(sorted)>> \o InsertSorted_BeforeEquals(Tail(sorted), a)

\* An insertion that leaves out the records of an unrecognised version.
RECURSIVE InsertSorted_KnownVersionsOnly(_, _)
InsertSorted_KnownVersionsOnly(sorted, a) ==
    IF a.behind = Null THEN sorted
    ELSE IF sorted = <<>> THEN <<a>>
    ELSE IF UrgencyRank(Head(sorted)) - UrgencyRank(a) > 0
         THEN <<a>> \o sorted
         ELSE <<Head(sorted)>> \o InsertSorted_KnownVersionsOnly(Tail(sorted), a)

\* Insert a behind every element that does not compare greater than it.
RECURSIVE InsertSorted(_, _)
InsertSorted(sorted, a) ==
    IF sorted = <<>> THEN <<a>>
    ELSE IF UrgencyRank(Head(sorted)) - UrgencyRank(a) > 0
         THEN <<a>> \o sorted
         ELSE <<Head(sorted)>> \o InsertSorted(Tail(sorted), a)

\* [...analyses].sort((a, b) => rank(a) - rank(b)): Array.prototype.sort
\* is stable; the input array is copied, not sorted in place.
RECURSIVE SortByUrgency(_)
SortByUrgency(as) ==
    IF as = <<>> THEN <<>>
    ELSE InsertSorted(SortByUrgency(SubSeq(as, 1, Len(as) - 1)), as[Len(as)])

\* Math.round((n / d) * 100), for whole n >= 0 and d > 0; NaN for 0/0
RoundPercent(n, d) ==
    IF d = 0 THEN NaN ELSE Num((200 * n + d) \div (2 * d))

\* `${x}` of a field that may be absent
Shown(obj, f) == IF f \in DOMAIN obj THEN <<obj[f]>> ELSE <<"undefined">>

DaysLabel(days) ==
    IF StrictEqNum(days, 0) THEN "Today"
    ELSE IF StrictEqNum(days, 1) THEN "1 day ago"
    ELSE "N days ago"

TableRow(a) ==
    [name      |-> a.trainer.name,
     region    |-> Shown(a.trainer, "region"),
     version   |-> a.trainer.current_version,
     status    |-> a.status,
     days      |-> a.daysSince,
     daysLabel |-> DaysLabel(a.daysSince),
     staleFlag |-> a.isStale,
     sessions  |-> Shown(a.trainer, "sessions_delivered"),
     urgency   |-> a.urgency]

NotificationSection(a) ==
    [name    |-> a.trainer.name,
     to      |-> a.trainer.email,
     urgency |-> a.urgency,
     subject |-> a.email.subject,
     body    |-> a.email.body]

\* A filter on the urgency instead of needsUpdate, which leaves out MEDIUM.
Outdated_UrgentOnly(sorted) ==
    LET Urgent(a) == a.urgency \in {"CRITICAL", "HIGH"}
    IN  SelectSeq(sorted, Urgent)

\* sorted.filter(a => a.needsUpdate)
Outdated(sorted) ==
    LET Needs(a) == a.needsUpdate
    IN  SelectSeq(sorted, Needs)

generateMarkdownReport(as, st) ==
    LET sorted   == SortByUrgency(as)
        outdated == Outdated(sorted)
        pct(n)   == [n |-> n, total |-> st.total, pct |-> RoundPercent(n, st.total)]
    IN  [latest        |-> VERSION_CONFIG.latest_version,
         tracked       |-> st.total,
         summary       |-> [current       |-> pct(st.current),
                            oneBehind     |-> pct(st.oneBehind),
                            twoPlusBehind |-> pct(st.twoPlusBehind),
                            stale         |-> pct(st.stale),
                            queued        |-> st.needsUpdate],
         regions       |-> [i \in 1..Len(st.byRegion) |->
                              [region     |-> st.byRegion[i].region,
                               current    |-> st.byRegion[i].current,
                               total      |-> st.byRegion[i].total,
                               compliance |-> RoundPercent(st.byRegion[i].current,
                                                           st.byRegion[i].total)]],
         rows          |-> [i \in 1..Len(sorted) |-> TableRow(sorted[i])],
         notifications |-> [i \in 1..Len(outdated) |-> NotificationSection(outdated[i])],
         allCurrent    |-> Len(outdated) = 0,
         history       |-> VERSION_CONFIG.release_notes]

---------------------------------------------------------------------------
(* Terminal output.                                                        *)

\* a.trainer.region.padEnd(...) throws a TypeError when region is absent.
RegionIsString(a) == "region" \in DOMAIN a.trainer

\* The rows printComplianceSummary prints before it returns or throws: the
\* sorted rows up to, and not including, the first one whose region is absent.
RECURSIVE PrintedRows(_)
PrintedRows(sorted) ==
    IF sorted = <<>> \/ ~RegionIsString(Head(sorted)) THEN <<>>
    ELSE <<TableRow(Head(sorted))>> \o PrintedRows(Tail(sorted))

SummaryThrows(as) == \E i \in DOMAIN as : ~RegionIsString(as[i])

---------------------------------------------------------------------------
(* Inputs.                                                                 *)

VersionNames == <<"1.0", "1.1", "1.2", "1.3", "1.4", "1.5">>
NoteTexts == <<"Initial release.", "Section 6 reformatted.", "Quick-Start added.",
               "Notes of 1.3.", "Notes of 1.4.", "Notes of 1.5.">>
UnknownVersion == "0.9-beta"

History(n) == SubSeq(VersionNames, 1, n)

\* release notes for the first n versions, except those in the set skip
Notes(n, skip) ==
    [v \in {VersionNames[i] : i \in 1..n} \ skip |->
        NoteTexts[CHOOSE i \in 1..n : VersionNames[i] = v]]

Ledger(n, latest, skip) ==
    [latest_version  |-> latest,
     version_history |-> History(n),
     release_notes   |-> Notes(n, skip)]

\* Every history length up to the bound, with latest_version at any place of
\* the history or absent from it; and one ledger lacking a release note.
UnitLedgers ==
    {Ledger(n, VersionNames[i], {}) : n \in 0..MaxHistory, i \in 1..(MaxHistory + 1)}
    \cup {Ledger(MaxHistory, VersionNames[MaxHistory], {VersionNames[MaxHistory]})}

RunLedgers ==
    { Ledger(MaxHistory, VersionNames[MaxHistory], {}),
      Ledger(MaxHistory, VersionNames[MaxHistory - 1], {}),
      Ledger(MaxHistory, VersionNames[MaxHistory + 1], {}),
      Ledger(0, VersionNames[1], {}) }

StaleOverrides == {0, 2}

UnitArgs ==
    {<<>>, <<FlagStaleDays>>}
    \cup {<<FlagStaleDays, String(n)>> : n \in StaleOverrides}

RunArgs == {<<>>, <<FlagQuiet, FlagStaleDays, String(2)>>}

NowHours == {3, 20}
TimeZones == {0 - 5, 0, 9}

UnitClocks == {[now |-> NowDay * HoursPerDay + h, tz |-> z] : h \in NowHours, z \in TimeZones}

RunClocks == {[now |-> NowDay * HoursPerDay + 12, tz |-> 0]}

DateOnly(d) == [fmt |-> "date", day |-> d]
DateTime(d, h) == [fmt |-> "datetime", day |-> d, hour |-> h]
NotADate == [fmt |-> "invalid"]

Ages == {0 - 1, 0, 1, 2, 3, 44, 45, 46}

LastAccessedValues ==
    {DateOnly(NowDay - a) : a \in Ages}
    \cup {DateTime(NowDay - a, h) : a \in Ages, h \in {0, 23}}
    \cup {NotADate}

Trainer(version, lastAccessed) ==
    [name            |-> <<"Ana", "Li">>,
     email           |-> "ana@example.com",
     region          |-> "EMEA",
     current_version |-> version,
     last_accessed   |-> lastAccessed]

With(obj, f, value) == [g \in DOMAIN obj \cup {f} |-> IF g = f THEN value ELSE obj[g]]
Without(obj, f) == [g \in DOMAIN obj \ {f} |-> obj[g]]

\* Records that pass the required-field validation.
UnitTrainers ==
    LET core == {Trainer(v, d) :
                    v \in {VersionNames[i] : i \in 1..MaxHistory} \cup {UnknownVersion},
                    d \in LastAccessedValues}
    IN  core \cup {With(t, "sessions_delivered", n) : t \in core, n \in {0, 3}}

Recent == DateOnly(NowDay - 2)
LongAgo == DateOnly(NowDay - 50)

RunTrainers ==
    LET cur  == With(Trainer(VersionNames[MaxHistory], Recent), "sessions_delivered", 3)
        one  == With(Trainer(VersionNames[MaxHistory - 1], Recent), "sessions_delivered", 1)
        old  == With(Trainer(VersionNames[1], Recent), "sessions_delivered", 0)
        unk  == With(Trainer(UnknownVersion, Recent), "sessions_delivered", 2)
    IN  { cur, one, old, unk,
          With(cur, "last_accessed", LongAgo),
          With(one, "last_accessed", LongAgo),
          With(one, "last_accessed", NotADate),
          \* optional fields absent or empty, another name and region
          Without(unk, "region"),
          With(one, "region", ""),
          With(With(With(one, "name", <<"Bo">>), "region", "APAC"), "email", "bo@example.com"),
          Without(old, "sessions_delivered"),
          With(cur, "region", "constructor"),
          \* required fields absent or empty
          Without(cur, "name"),
          Without(one, "email"),
          With(old, "current_version", ""),
          Without(unk, "last_accessed") }

\* Records for the longer lists: one record per urgency, two records that
\* differ only in who they are about, one of an unrecognised version, one
\* without a region, one that fails the validation.
ReportTrainers ==
    LET cur  == With(Trainer(VersionNames[MaxHistory], Recent), "sessions_delivered", 3)
        one  == With(Trainer(VersionNames[MaxHistory - 1], Recent), "sessions_delivered", 1)
        old  == With(Trainer(VersionNames[1], Recent), "sessions_delivered", 0)
        unk  == With(Trainer(UnknownVersion, Recent), "sessions_delivered", 2)
    IN  { cur, one, old, unk,
          With(cur, "last_accessed", LongAgo),
          With(one, "last_accessed", LongAgo),
          With(With(With(one, "name", <<"Bo">>), "region", "APAC"), "email", "bo@example.com"),
          Without(one, "region"),
          Without(cur, "name") }

SeqsUpTo(S, n) == UNION {[1..k -> S] : k \in 0..n}

---------------------------------------------------------------------------
(* main()                                                                  *)

NoStats == [t |-> "none"]
NoReport == [t |-> "none"]

required == <<"name", "email", "current_version", "last_accessed">>

\* A variant with every for some.
IsInvalid_Every(t) == \A i \in 1..Len(required) : ~Truthy(t, required[i])

\* required.some(f => !t[f])
IsInvalid(t) == \E i \in 1..Len(required) : ~Truthy(t, required[i])

\* data.trainers.filter(t => required.some(f => !t[f]))
InvalidTrainers == SelectSeq(data, IsInvalid)

Init ==
    /\ VERSION_CONFIG \in RunLedgers
    /\ args \in RunArgs
    /\ clock \in RunClocks
    /\ data \in SeqsUpTo(RunTrainers, MaxTrainers)
    /\ pc = "validate"
    /\ analyses = <<>>
    /\ stats = NoStats
    /\ terminal = <<>>
    /\ report = NoReport
    /\ exitCode = "running"

Exit(code, message) ==
    /\ terminal' = Append(terminal, message)
    /\ exitCode' = code
    /\ pc' = "exited"
    /\ UNCHANGED <<VERSION_CONFIG, args, clock, data, analyses, stats, report>>

\* if (!Array.isArray(data.trainers) || data.trainers.length === 0) exit(1)
RejectEmpty ==
    /\ pc = "validate"
    /\ data = <<>>
    /\ Exit("1", [out |-> "error", what |-> "non-empty trainers array"])

\* if (invalid.length > 0) exit(1), after naming each invalid record
RejectInvalid ==
    /\ pc = "validate"
    /\ data # <<>>
    /\ InvalidTrainers # <<>>
    /\ Exit("1", [out |-> "error", what |-> "missing required fields",
                  records |-> InvalidTrainers])

AcceptInput ==
    /\ pc = "validate"
    /\ data # <<>>
    /\ InvalidTrainers = <<>>
    /\ pc' = "analyse"
    /\ UNCHANGED <<VERSION_CONFIG, args, clock, data, analyses, stats, terminal,
                   report, exitCode>>

\* One call of the callback of data.trainers.map(analyzeTrainer).
\* A map that reuses the status already computed for a record of the same
\* name.
AnalyseNext_CachedByName ==
    /\ pc = "analyse"
    /\ Len(analyses) < Len(data)
    /\ LET t == data[Len(analyses) + 1]
           same == {j \in DOMAIN analyses : analyses[j].trainer.name = t.name}
       IN  analyses' = Append(analyses,
                IF same = {} THEN analyzeTrainer(t)
                ELSE analyses[CHOOSE j \in same : TRUE])
    /\ UNCHANGED <<VERSION_CONFIG, args, clock, data, pc, stats, terminal, report,
                   exitCode>>

AnalyseNext ==
    /\ pc = "analyse"
    /\ Len(analyses) < Len(data)
    /\ analyses' = Append(analyses, analyzeTrainer(data[Len(analyses) + 1]))
    /\ UNCHANGED <<VERSION_CONFIG, args, clock, data, pc, stats, terminal, report,
                   exitCode>>

\* const stats = computeStats(analyses), once map has returned
ComputeStats ==
    /\ pc = "analyse"
    /\ Len(analyses) = Len(data)
    /\ stats' = computeStats(analyses)
    /\ pc' = "summary"
    /\ UNCHANGED <<VERSION_CONFIG, args, clock, data, analyses, terminal, report,
                   exitCode>>

\* printComplianceSummary(analyses, stats) returns.
PrintComplianceSummary ==
    /\ pc = "summary"
    /\ ~SummaryThrows(analyses)
    /\ terminal' = Append(terminal,
            [out |-> "summary", rows |-> PrintedRows(SortByUrgency(analyses)),
             stats |-> stats])
    /\ pc' = "previews"
    /\ UNCHANGED <<VERSION_CONFIG, args, clock, data, analyses, stats, report,
                   exitCode>>

\* printComplianceSummary throws: the exception is not caught, the process
\* ends with status 1 after the rows already printed.
SummaryTypeError ==
    /\ pc = "summary"
    /\ SummaryThrows(analyses)
    /\ terminal' = Append(terminal,
            [out |-> "TypeError", rows |-> PrintedRows(SortByUrgency(analyses))])
    /\ exitCode' = "1"
    /\ pc' = "crashed"
    /\ UNCHANGED <<VERSION_CONFIG, args, clock, data, analyses, stats, report>>

\* What printEmailPreviews prints, or the one line printed under --quiet.
EmailOutput ==
    LET Needs(a) == a.needsUpdate
        outdated == SelectSeq(analyses, Needs)
    IN  IF ~QUIET
        THEN IF Len(outdated) = 0
             THEN <<[out |-> "all current"]>>
             ELSE <<[out |-> "previews",
                     emails |-> [i \in 1..Len(outdated) |-> NotificationSection(outdated[i])]]>>
        ELSE IF Len(outdated) > 0
             THEN <<[out |-> "emails ready", count |-> Len(outdated)]>>
             ELSE <<>>

PrintEmails ==
    /\ pc = "previews"
    /\ terminal' = terminal \o EmailOutput
    /\ pc' = "write"
    /\ UNCHANGED <<VERSION_CONFIG, args, clock, data, analyses, stats, report,
                   exitCode>>

\* A report written as soon as one record is classified.
WriteReport_WhileClassifying ==
    /\ pc \in {"analyse", "write"}
    /\ analyses # <<>>
    /\ report' = generateMarkdownReport(analyses, computeStats(analyses))
    /\ terminal' = Append(terminal, [out |-> "report saved"])
    /\ exitCode' = "0"
    /\ pc' = "done"
    /\ UNCHANGED <<VERSION_CONFIG, args, clock, data, analyses, stats>>

\* A report that sorts analyses itself instead of a copy.
WriteReport_SortInPlace ==
    /\ pc = "write"
    /\ analyses' = SortByUrgency(analyses)
    /\ report' = generateMarkdownReport(analyses, stats)
    /\ terminal' = Append(terminal, [out |-> "report saved"])
    /\ exitCode' = "0"
    /\ pc' = "done"
    /\ UNCHANGED <<VERSION_CONFIG, args, clock, data, stats>>

\* generateMarkdownReport, writeFileSync, and the last lines of main.
WriteReport ==
    /\ pc = "write"
    /\ report' = generateMarkdownReport(analyses, stats)
    /\ terminal' = Append(terminal, [out |-> "report saved"])
    /\ exitCode' = "0"
    /\ pc' = "done"
    /\ UNCHANGED <<VERSION_CONFIG, args, clock, data, analyses, stats>>

Next ==
    \/ RejectEmpty
    \/ RejectInvalid
    \/ AcceptInput
    \/ AnalyseNext
    \/ ComputeStats
    \/ PrintComplianceSummary
    \/ SummaryTypeError
    \/ PrintEmails
    \/ WriteReport

Spec == Init /\ [][Next]_vars

---------------------------------------------------------------------------
(* main() on lists of up to MaxRows records under the well-formed ledger. *)

InitReport ==
    /\ VERSION_CONFIG = Ledger(MaxHistory, VersionNames[MaxHistory], {})
    /\ args \in RunArgs
    /\ clock \in RunClocks
    /\ data \in SeqsUpTo(ReportTrainers, MaxRows)
    /\ pc = "validate"
    /\ analyses = <<>>
    /\ stats = NoStats
    /\ terminal = <<>>
    /\ report = NoReport
    /\ exitCode = "running"

SpecReport == InitReport /\ [][Next]_vars

---------------------------------------------------------------------------
(* analyzeTrainer on its own: one record that passes validation, under    *)
(* every ledger, threshold, clock and time zone of the bounds.            *)

InitAnalyze ==
    /\ VERSION_CONFIG \in UnitLedgers
    /\ args \in UnitArgs
    /\ clock \in UnitClocks
    /\ data \in {<<t>> : t \in UnitTrainers}
    /\ pc = "analyse"
    /\ analyses = <<>>
    /\ stats = NoStats
    /\ terminal = <<>>
    /\ report = NoReport
    /\ exitCode = "running"

SpecAnalyze == InitAnalyze /\ [][AnalyseNext]_vars

---------------------------------------------------------------------------
(* Vocabulary of the properties, stated on the inputs and on the fields of *)
(* a status rather than through the operators above.                       *)

InHistory(version) ==
    \E k \in 1..Len(VERSION_CONFIG.version_history) :
        VERSION_CONFIG.version_history[k] = version

\* The staleness threshold in force: the --stale-days override when one is
\* given, else the configured 45 days.
ThresholdInForce ==
    IF \E n \in StaleOverrides, i \in 1..Len(args) :
            args[i] = FlagStaleDays /\ i < Len(args) /\ args[i + 1] = String(n)
    THEN CHOOSE n \in StaleOverrides :
            \E i \in 1..Len(args) :
                args[i] = FlagStaleDays /\ i < Len(args) /\ args[i + 1] = String(n)
    ELSE stale_threshold_days

\* daysSinceActive exceeds the threshold in force
BeyondThreshold(a) == IsNum(a.daysSince) /\ a.daysSince.v > ThresholdInForce

LacksRequiredField(t) ==
    \E f \in {"name", "email", "current_version", "last_accessed"} : f \notin DOMAIN t

LedgerMalformed ==
    \/ VERSION_CONFIG.version_history = <<>>
    \/ ~InHistory(VERSION_CONFIG.latest_version)

RunEnded == pc \in {"done", "crashed", "exited"}

---------------------------------------------------------------------------
(* Properties.                                                             *)

C2_UnknownVersionIsUnknownUrgency ==
    \A i \in DOMAIN analyses :
        ~InHistory(analyses[i].trainer.current_version) =>
            analyses[i].urgency = "UNKNOWN"

\* C3: a record whose current_version is not in version_history is
\* classified with versionsBehind null, no missed versions, no notification
\* and no email, and the run of a validated input holding such a record,
\* once ended, has completed with the record in the report's table.
C3_UnknownVersionDoesNotStopTheRun ==
    /\ \A i \in DOMAIN analyses :
            ~InHistory(analyses[i].trainer.current_version) =>
                /\ analyses[i].behind = Null
                /\ analyses[i].missed = <<>>
                /\ analyses[i].needsUpdate = FALSE
                /\ analyses[i].email = Null
    /\ \A i \in DOMAIN data :
            (/\ RunEnded
             /\ \A j \in DOMAIN data : ~LacksRequiredField(data[j]) /\ ~IsInvalid(data[j])
             /\ ~InHistory(data[i].current_version))
            => /\ pc = "done"
               /\ report # NoReport
               /\ \E r \in DOMAIN report.rows :
                      /\ report.rows[r].name = data[i].name
                      /\ report.rows[r].version = data[i].current_version

\* C4: every status of a record whose current_version is the ledger's
\* latest_version has versionsBehind 0 and urgency OK or LOW.
C4_OnLatestIsCurrent ==
    \A i \in DOMAIN analyses :
        analyses[i].trainer.current_version = VERSION_CONFIG.latest_version =>
            /\ analyses[i].behind = Num(0)
            /\ analyses[i].urgency \in {"OK", "LOW"}

\* C5: under every ledger whose latest_version is taken from its
\* version_history, a status whose version is known has as many missed
\* versions as it is versions behind.
C5_MissedLengthIsVersionsBehind ==
    \A i \in DOMAIN analyses :
        (/\ InHistory(VERSION_CONFIG.latest_version)
         /\ InHistory(analyses[i].trainer.current_version))
        => /\ IsNum(analyses[i].behind)
           /\ Len(analyses[i].missed) = analyses[i].behind.v

\* C6: needsUpdate is true exactly when versionsBehind is a number greater
\* than zero, and the status carries an email, with a subject and a body,
\* exactly when needsUpdate is true; otherwise email is null, a value and
\* not an error.
C6_NotificationIffBehind ==
    \A i \in DOMAIN analyses :
        LET a == analyses[i]
        IN  /\ a.needsUpdate = (IsNum(a.behind) /\ a.behind.v > 0)
            /\ a.needsUpdate => DOMAIN a.email = {"subject", "body"}
            /\ ~a.needsUpdate => a.email = Null

C6_Witness_EmailForOutdated ==
    \E i \in DOMAIN analyses :
        /\ analyses[i].behind = Num(1)
        /\ analyses[i].needsUpdate
        /\ analyses[i].email # Null

\* C7: isStale is true exactly when daysSinceActive is strictly greater than
\* the threshold in force; at the threshold itself a record is not stale.
C7_StaleIffBeyondThreshold ==
    \A i \in DOMAIN analyses : analyses[i].isStale = BeyondThreshold(analyses[i])

C7_Witness_AtOverriddenThresholdNotStale ==
    \E i \in DOMAIN analyses :
        /\ ThresholdInForce # stale_threshold_days
        /\ analyses[i].daysSince = Num(ThresholdInForce)
        /\ ~analyses[i].isStale

\* C8: a record whose last_accessed is present but is no date is never
\* classified, and its run writes no report and ends in failure.
C8_UnparseableDateFailsTheRun ==
    \A i \in DOMAIN data :
        ("last_accessed" \in DOMAIN data[i] /\ data[i].last_accessed = NotADate) =>
            /\ Len(analyses) < i
            /\ report = NoReport
            /\ RunEnded => exitCode = "1"

\* C9: when some input record lacks a required field, no record is ever
\* classified, no statistics are computed, no report is written, and the
\* run can only end by exiting with status 1 from the validation.
C9_MissingFieldAbortsBeforeClassification ==
    (\E i \in DOMAIN data : LacksRequiredField(data[i])) =>
        /\ analyses = <<>>
        /\ stats = NoStats
        /\ report = NoReport
        /\ pc \in {"validate", "exited"}
        /\ pc = "exited" => exitCode = "1"

C9_Witness_AbortedBesideValidRecord ==
    /\ pc = "exited"
    /\ exitCode = "1"
    /\ \E i, j \in DOMAIN data :
            LacksRequiredField(data[i]) /\ ~IsInvalid(data[j])

\* C10: under a malformed ledger (version_history empty, or latest_version
\* absent from it) no record is ever classified and the run, once ended, has
\* failed.
C10_MalformedLedgerFailsBeforeClassification ==
    LedgerMalformed =>
        /\ analyses = <<>>
        /\ report = NoReport
        /\ RunEnded => exitCode = "1"

---------------------------------------------------------------------------
(* Properties of the aggregate statistics.                                 *)

RECURSIVE SumOfTotals(_)
SumOfTotals(groups) ==
    IF groups = <<>> THEN 0 ELSE Head(groups).total + SumOfTotals(Tail(groups))

RegionMissing(t) == "region" \notin DOMAIN t \/ t.region = ""

\* C11: once the statistics are computed, the totals of the groups add up
\* to the total number of records, and every group counts at least one
\* record and at most as many current records as records.
C11_GroupTotalsAddUpToTotal ==
    stats # NoStats =>
        /\ stats.total = Len(data)
        /\ SumOfTotals(stats.byRegion) = stats.total
        /\ \A g \in DOMAIN stats.byRegion :
                /\ 1 <= stats.byRegion[g].total
                /\ 0 <= stats.byRegion[g].current
                /\ stats.byRegion[g].current <= stats.byRegion[g].total

\* C12: every record whose region is absent or empty is counted in the one
\* group named "Unknown", whose total is the number of such records (and of
\* those whose region is literally "Unknown"), and in the overall total.
C12_MissingRegionCountedAsUnknown ==
    (stats # NoStats /\ \E i \in DOMAIN data : RegionMissing(data[i])) =>
        /\ stats.total = Len(data)
        /\ Cardinality({g \in DOMAIN stats.byRegion :
                            stats.byRegion[g].region = "Unknown"}) = 1
        /\ \A g \in DOMAIN stats.byRegion :
                stats.byRegion[g].region = "Unknown" =>
                    stats.byRegion[g].total =
                        Cardinality({i \in DOMAIN data :
                            \/ RegionMissing(data[i])
                            \/ data[i].region = "Unknown"})

C12_Witness_AbsentAndEmptyInOneGroup ==
    /\ stats # NoStats
    /\ \E i, j \in DOMAIN data :
            /\ "region" \notin DOMAIN data[i]
            /\ "region" \in DOMAIN data[j] /\ data[j].region = ""
    /\ \E g \in DOMAIN stats.byRegion :
            stats.byRegion[g].region = "Unknown" /\ stats.byRegion[g].total = 2

---------------------------------------------------------------------------
(* Properties of the report and of the list of statuses.                   *)

\* The orders in which n things can be arranged.
Arrangements(n) ==
    {p \in [1..n -> 1..n] : \A k, l \in 1..n : p[k] = p[l] => k = l}

SeverityOrder == <<"CRITICAL", "HIGH", "MEDIUM", "LOW", "OK", "UNKNOWN">>
Severity(u) == CHOOSE k \in DOMAIN SeverityOrder : SeverityOrder[k] = u

\* A row of the table is the row of the status a.
RowOfStatus(row, a) ==
    /\ row.name = a.trainer.name
    /\ row.version = a.trainer.current_version
    /\ row.region = Shown(a.trainer, "region")
    /\ row.sessions = Shown(a.trainer, "sessions_delivered")
    /\ row.status = a.status
    /\ row.days = a.daysSince
    /\ row.urgency = a.urgency

\* A row of the table is the row of the input record t.
RowOfRecord(row, t) ==
    /\ row.name = t.name
    /\ row.version = t.current_version
    /\ row.region = Shown(t, "region")
    /\ row.sessions = Shown(t, "sessions_delivered")

\* C13: the rows of the report's table are the statuses arranged by
\* severity, CRITICAL first and UNKNOWN last, and statuses of equal severity
\* keep the order they have in the input; the table printed on the terminal
\* has the same rows.
C13_TableOrderedBySeverityStable ==
    report # NoReport =>
        /\ Len(report.rows) = Len(analyses)
        /\ \E p \in Arrangements(Len(analyses)) :
              /\ \A k \in DOMAIN report.rows : RowOfStatus(report.rows[k], analyses[p[k]])
              /\ \A k, l \in DOMAIN report.rows :
                    k < l =>
                        \/ Severity(analyses[p[k]].urgency) < Severity(analyses[p[l]].urgency)
                        \/ /\ analyses[p[k]].urgency = analyses[p[l]].urgency
                           /\ p[k] < p[l]
        /\ \A e \in DOMAIN terminal :
              terminal[e].out = "summary" => terminal[e].rows = report.rows

C13_Witness_TieKeptBehindMoreSevere ==
    /\ report # NoReport
    /\ Len(data) = 3
    /\ analyses[1].urgency = "MEDIUM"
    /\ analyses[2].urgency = "MEDIUM"
    /\ analyses[3].urgency = "CRITICAL"
    /\ data[1].name # data[2].name
    /\ report.rows[1].urgency = "CRITICAL"
    /\ report.rows[2].name = data[1].name
    /\ report.rows[3].name = data[2].name

\* C14: the table of the report has one row for each input record, also
\* for a record of an unrecognised version: its rows are the input records
\* in some arrangement.
C14_TableRowsArePermutationOfInput ==
    report # NoReport =>
        /\ Len(report.rows) = Len(data)
        /\ \E p \in Arrangements(Len(data)) :
              \A k \in DOMAIN report.rows : RowOfRecord(report.rows[k], data[p[k]])

C14_Witness_UnknownVersionHasItsRow ==
    /\ report # NoReport
    /\ Len(data) = 3
    /\ \E i \in DOMAIN data : ~InHistory(data[i].current_version)
    /\ \E i \in DOMAIN data : InHistory(data[i].current_version)
    /\ \E k \in DOMAIN report.rows :
            /\ report.rows[k].status = "UNKNOWN"
            /\ report.rows[k].version = UnknownVersion

\* C15: at every moment the statuses are those of the first input records,
\* one each and in input order, and all of them once the classification is
\* over; no step changes an input record, and no step changes or reorders
\* the statuses already in the list.
C15_OneStatusPerRecordNeverChanged ==
    /\ [](/\ Len(analyses) <= Len(data)
          /\ \A i \in DOMAIN analyses : analyses[i].trainer = data[i]
          /\ pc \in {"summary", "previews", "write", "done", "crashed"}
                => Len(analyses) = Len(data))
    /\ [][/\ data' = data
          /\ Len(analyses) <= Len(analyses')
          /\ SubSeq(analyses', 1, Len(analyses)) = analyses
          /\ stats # NoStats => analyses' = analyses]_vars

C15_Witness_ReportReorderedStatusesNot ==
    /\ pc = "done"
    /\ Len(data) = 3
    /\ Len(analyses) = 3
    /\ \A i \in DOMAIN data : analyses[i].trainer = data[i]
    /\ analyses[1].urgency = "OK"
    /\ analyses[3].urgency = "HIGH"
    /\ report.rows[1].urgency = "HIGH"
    /\ report.rows[3].urgency = "OK"

\* The statuses that ask for a notification, by their place in the input.
NeedingNotification == {i \in DOMAIN analyses : analyses[i].needsUpdate}

\* C16: the report has one notification section for each record whose
\* status asks for a notification and none for any other record; every
\* section names the record's name and email address, and the number of
\* sections is the needsUpdate count of the statistics.
C16_OneNotificationPerOutdatedRecord ==
    report # NoReport =>
        /\ Len(report.notifications) = stats.needsUpdate
        /\ Len(report.notifications) = Cardinality(NeedingNotification)
        /\ \E q \in [DOMAIN report.notifications -> NeedingNotification] :
              /\ \A k, l \in DOMAIN report.notifications : q[k] = q[l] => k = l
              /\ \A k \in DOMAIN report.notifications :
                    /\ report.notifications[k].name = data[q[k]].name
                    /\ report.notifications[k].to = data[q[k]].email
        /\ report.allCurrent <=> NeedingNotification = {}

C16_Witness_TwoSectionsOfThreeRecords ==
    /\ report # NoReport
    /\ Len(data) = 3
    /\ Cardinality(NeedingNotification) = 2
    /\ Len(report.notifications) = 2
    /\ report.notifications[1].to # report.notifications[2].to
    /\ \E i \in DOMAIN analyses : analyses[i].urgency = "MEDIUM"

C19_ValidInputIsRenderedInFull ==
    (data # <<>> /\ \A i \in DOMAIN data : ~LacksRequiredField(data[i]) /\ ~IsInvalid(data[i])) =>
        /\ pc # "crashed"
        /\ RunEnded => (pc = "done" /\ report # NoReport /\ exitCode = "0")

---------------------------------------------------------------------------
(* Properties of the version arithmetic.                                   *)

\* The place of a version in version_history, counted from 1.
PlaceInHistory(version) ==
    CHOOSE k \in DOMAIN VERSION_CONFIG.version_history :
        VERSION_CONFIG.version_history[k] = version

\* C20: for a record whose version is at place i of version_history, with
\* latest_version at place L, versionsBehind is L - i when that is positive
\* and 0 otherwise, also when the record's version comes after the latest;
\* and missedVersions is the part of version_history after place i, in
\* order.
C20_BehindIsClampedDistanceMissedIsTail ==
    \A n \in DOMAIN analyses :
        LET h == VERSION_CONFIG.version_history
            v == analyses[n].trainer.current_version
        IN  (InHistory(v) /\ InHistory(VERSION_CONFIG.latest_version)) =>
                LET i == PlaceInHistory(v)
                    L == PlaceInHistory(VERSION_CONFIG.latest_version)
                IN  /\ analyses[n].behind = Num(IF L - i > 0 THEN L - i ELSE 0)
                    /\ Len(analyses[n].missed) = Len(h) - i
                    /\ \A k \in 1..(Len(h) - i) : analyses[n].missed[k] = h[i + k]

C20_Witness_RecordAfterLatestIsZeroBehind ==
    \E n \in DOMAIN analyses :
        /\ InHistory(analyses[n].trainer.current_version)
        /\ InHistory(VERSION_CONFIG.latest_version)
        /\ PlaceInHistory(analyses[n].trainer.current_version)
                > PlaceInHistory(VERSION_CONFIG.latest_version)
        /\ PlaceInHistory(analyses[n].trainer.current_version)
                < Len(VERSION_CONFIG.version_history)
        /\ analyses[n].behind = Num(0)
        /\ analyses[n].missed # <<>>

---------------------------------------------------------------------------
(* Properties of the urgency, the notification and the staleness flag.     *)

C22_LowAndOkOnlyWhenCurrent ==
    \A i \in DOMAIN analyses :
        analyses[i].urgency \in {"LOW", "OK"} => analyses[i].behind = Num(0)

\* The run has said that all trainers are on the current version: in the
\* report, or in the preview on the terminal.
SaysAllCurrent ==
    \/ report # NoReport /\ report.allCurrent
    \/ \E e \in DOMAIN terminal : terminal[e].out = "all current"

\* C23: the run says that all trainers are on the current version only
\* when every status has versionsBehind = 0.
C23_AllCurrentOnlyWhenNoneBehind ==
    SaysAllCurrent => \A i \in DOMAIN analyses : analyses[i].behind = Num(0)

---------------------------------------------------------------------------
(* Properties of the day arithmetic.                                       *)

\* The calendar day of "now" in the zone of the run.
TodayLocal == (clock.now + clock.tz) \div HoursPerDay

\* last_accessed is a date, with or without a time of day.
IsCalendarDate(dateString) == dateString.fmt \in {"date", "datetime"}

\* C24: a status whose last_accessed is on the calendar day of "now" has
\* daysSince = 0, and one whose last_accessed is on the day before has
\* daysSince = 1, whatever the times of day.
C24_SameDayIsZeroPreviousDayIsOne ==
    \A i \in DOMAIN analyses :
        LET lastAccessed == analyses[i].trainer.last_accessed
        IN  IsCalendarDate(lastAccessed) =>
                /\ lastAccessed.day = TodayLocal => analyses[i].daysSince = Num(0)
                /\ lastAccessed.day = TodayLocal - 1 => analyses[i].daysSince = Num(1)

\* The urgency the rule gives a record that is not stale.
UrgencyWhenNotStale(behind) ==
    IF IsNum(behind) /\ behind.v >= 2 THEN "CRITICAL"
    ELSE IF behind = Num(1) THEN "MEDIUM"
    ELSE "OK"

\* C25: a status whose last_accessed is on a calendar day after that of
\* "now" has a negative daysSince, is not stale under any positive
\* threshold, and has the urgency of a record that is not stale.
C25_FutureDateIsNegativeAndNotStale ==
    \A i \in DOMAIN analyses :
        LET lastAccessed == analyses[i].trainer.last_accessed
        IN  (IsCalendarDate(lastAccessed) /\ lastAccessed.day > TodayLocal) =>
                /\ IsNum(analyses[i].daysSince)
                /\ analyses[i].daysSince.v < 0
                /\ ThresholdInForce > 0 => ~analyses[i].isStale
                /\ ThresholdInForce > 0 =>
                        analyses[i].urgency = UrgencyWhenNotStale(analyses[i].behind)

---------------------------------------------------------------------------
(* Properties of the email.                                                *)

FallbackNote == "See release notes."

\* The release note the ledger has for a version, or the fallback text.
NoteOf(version) ==
    IF version \in DOMAIN VERSION_CONFIG.release_notes
    THEN VERSION_CONFIG.release_notes[version]
    ELSE FallbackNote

\* C26: the body of every email greets the trainer by the first word of the
\* name, has one change line for each missed version, in the order of
\* missedVersions and with that version's release note or the fallback
\* text, and has the session sentence exactly when sessions_delivered is
\* present and greater than 0.
C26_EmailBodyFollowsTheStatus ==
    \A i \in DOMAIN analyses :
        analyses[i].email # Null =>
            LET body    == analyses[i].email.body
                trainer == analyses[i].trainer
                missed  == analyses[i].missed
            IN  /\ body.greeting = trainer.name[1]
                /\ Len(body.changeLines) = Len(missed)
                /\ \A k \in DOMAIN missed :
                        /\ body.changeLines[k].v = missed[k]
                        /\ body.changeLines[k].note = NoteOf(missed[k])
                /\ body.sessionLine # <<>> <=>
                        /\ "sessions_delivered" \in DOMAIN trainer
                        /\ trainer.sessions_delivered > 0
                /\ body.sessionLine # <<>> =>
                        body.sessionLine[1].sessions = trainer.sessions_delivered

C26_Witness_TwoChangesOneWithoutNote ==
    \E i \in DOMAIN analyses :
        /\ analyses[i].email # Null
        /\ Len(analyses[i].missed) = 2
        /\ Len(analyses[i].email.body.changeLines) = 2
        /\ analyses[i].email.body.changeLines[1].note # FallbackNote
        /\ analyses[i].email.body.changeLines[2].note = FallbackNote
        /\ analyses[i].email.body.sessionLine # <<>>
        /\ Len(analyses[i].trainer.name) > 1

---------------------------------------------------------------------------
(* Properties of the order of the run and of the global counts.            *)

\* The summary table has been sorted and printed, in full or up to a throw.
SortingBegun ==
    \E e \in DOMAIN terminal : terminal[e].out \in {"summary", "TypeError"}

\* C27: statistics exist only once every record is classified, sorting
\* begins only once the statistics exist, a report exists only with all of
\* that done and the run ended; and no step is taken once a report exists,
\* so it is written at most once, as the last step.
C27_ReportOnlyAfterAllClassified ==
    /\ [](/\ stats # NoStats => Len(analyses) = Len(data)
          /\ SortingBegun => stats # NoStats
          /\ report # NoReport =>
                /\ Len(analyses) = Len(data)
                /\ stats # NoStats
                /\ SortingBegun
                /\ pc = "done")
    /\ [][report = NoReport]_vars

C27_Witness_ReportAfterThreeStatuses ==
    /\ report # NoReport
    /\ Len(data) = 3
    /\ Len(analyses) = 3
    /\ stats # NoStats
    /\ pc = "done"

\* The records whose version is not in version_history.
UnknownVersionRecords == {i \in DOMAIN data : ~InHistory(data[i].current_version)}

\* C28: the counts current, oneBehind, twoPlusBehind and the number of
\* records of unknown version add up to total; needsUpdate is oneBehind
\* plus twoPlusBehind; and each count lies between 0 and total.
C28_CountsPartitionTheRecords ==
    stats # NoStats =>
        /\ stats.total = Len(data)
        /\ stats.current + stats.oneBehind + stats.twoPlusBehind
                + Cardinality(UnknownVersionRecords) = stats.total
        /\ stats.needsUpdate = stats.oneBehind + stats.twoPlusBehind
        /\ \A n \in {stats.current, stats.oneBehind, stats.twoPlusBehind,
                     stats.stale, stats.needsUpdate} :
                0 <= n /\ n <= stats.total

C28_Witness_OneOfEachKind ==
    /\ stats # NoStats
    /\ stats.total = 3
    /\ stats.oneBehind = 1
    /\ stats.twoPlusBehind = 1
    /\ Cardinality(UnknownVersionRecords) = 1
    /\ stats.needsUpdate = 2

\* C29: the isStale flag agrees with the urgency: HIGH and LOW only with
\* isStale true, MEDIUM and OK only with isStale false, under the configured
\* threshold and under an override.
C29_StaleFlagAgreesWithUrgency ==
    \A i \in DOMAIN analyses :
        /\ analyses[i].urgency \in {"HIGH", "LOW"} => analyses[i].isStale
        /\ analyses[i].urgency \in {"MEDIUM", "OK"} => ~analyses[i].isStale

C29_Witness_LowUnderOverride ==
    \E i \in DOMAIN analyses :
        /\ ThresholdInForce # stale_threshold_days
        /\ ThresholdInForce > 0
        /\ BeyondThreshold(analyses[i])
        /\ analyses[i].daysSince.v <= stale_threshold_days
        /\ analyses[i].urgency = "LOW"
        /\ analyses[i].isStale

====
